---- MODULE Spec2Model ----
(***************************************************************************)
(* Voice controller of the bott repository (controlcentre.py) with the     *)
(* chat engine entry point it calls (dynamicbot.bot_main).                 *)
(*                                                                         *)
(* Three parts:                                                            *)
(*   - text: utterances as character sequences, str.lower, str.strip and   *)
(*     the substring test `w in t`, and parse_start_stop_command;          *)
(*   - the process registry: running_procs (an insertion-ordered dict),    *)
(*     start_subprocess_module, stop_subprocess_module, the status probe;  *)
(*   - main_voice_controller as a state machine.                           *)
(*                                                                         *)
(* Specifications:                                                         *)
(*   Spec          the controller loop as the program runs it;             *)
(*   SpecRegistry  the registry functions called in any order, interleaved *)
(*                 with child-exit events;                                 *)
(*   SpecCaptured  the controller loop followed from its first captured    *)
(*                 utterance on, with longer utterances;                   *)
(*   SpecParse     parse_start_stop_command applied to a text;             *)
(*   SpecWake      listen_for_wakeword_fallback, the polling wake gate.    *)
(*                                                                         *)
(* Operating-system assumptions (outside the repository's code): a process *)
(* that has exited never becomes alive again; Popen.kill() that returns    *)
(* without raising ends the process; Popen.terminate() may be ignored by   *)
(* the child, so the grace-period wait may time out.                       *)
(***************************************************************************)
EXTENDS Integers, Sequences, FiniteSets, TLC

\* ------------------------------------------------------------------ bounds
\* Processes spawned in one run.
MaxSpawns == 2
\* Words in one captured command utterance.
MaxCmdWords == 2
\* Words in the utterance the loop starts from when it is followed from
\* its first capture on.
MaxFirstWords == 3
\* Words in one text passed to parse_start_stop_command, over the short
\* vocabulary and over the full keyword vocabulary.
MaxParseWords == 3
MaxKeyWords == 2
\* Words in one text heard while listening for the wake word.
MaxWakeWords == 2
\* Listening attempts of one wake-word wait.
MaxAttempts == 2

\* ------------------------------------------------------------------- text
\* A text is a sequence of one-character strings.
SP == " "

w_start      == <<"s","t","a","r","t">>
w_Start      == <<"S","t","a","r","t">>
w_stop       == <<"s","t","o","p">>
w_status     == <<"s","t","a","t","u","s">>
w_face       == <<"f","a","c","e">>
w_hand       == <<"h","a","n","d">>
w_chatbot    == <<"c","h","a","t","b","o","t">>
w_exit       == <<"e","x","i","t">>
w_shutdown   == <<"s","h","u","t","d","o","w","n">>
w_quit       == <<"q","u","i","t">>
w_controller == <<"c","o","n","t","r","o","l","l","e","r">>
w_Status     == <<"S","t","a","t","u","s">>
w_friend     == <<"f","r","i","e","n","d">>
w_jarvis     == <<"j","a","r","v","i","s">>
w_Jarvis     == <<"J","a","r","v","i","s">>
w_jarvisson  == <<"j","a","r","v","i","s","s","o","n">>
w_say        == <<"s","a","y">>
w_empty      == <<>>

\* str.lower on the upper-case letters the utterances use.
LowerChar(c) == IF c = "S" THEN "s" ELSE IF c = "J" THEN "j" ELSE c

Lower(t) == [i \in 1..Len(t) |-> LowerChar(t[i])]

RECURSIVE LStrip(_)
LStrip(t) == IF t # <<>> /\ Head(t) = SP THEN LStrip(Tail(t)) ELSE t

RECURSIVE RStrip(_)
RStrip(t) ==
  IF t # <<>> /\ t[Len(t)] = SP THEN RStrip(SubSeq(t, 1, Len(t) - 1)) ELSE t

\* str.strip
Strip(t) == RStrip(LStrip(t))

\* `w in t` on strings: w occurs in t as a contiguous substring.
Contains(t, w) ==
  \E i \in 1..(Len(t) - Len(w) + 1) : SubSeq(t, i, i + Len(w) - 1) = w

AnyIn(ws, t) == \E w \in ws : Contains(t, w)

\* " ".join(ws)
RECURSIVE Join(_)
Join(ws) ==
  IF ws = <<>> THEN <<>>
  ELSE IF Len(ws) = 1 THEN ws[1]
  ELSE ws[1] \o <<SP>> \o Join(Tail(ws))

StartVerbs ==
  { w_start, <<"r","u","n">>, <<"o","p","e","n">>, <<"l","a","u","n","c","h">> }

StopVerbs ==
  { w_stop, <<"c","l","o","s","e">>, <<"t","e","r","m","i","n","a","t","e">>,
    w_quit, w_shutdown, <<"e","n","d">> }

ChatNouns == { <<"c","h","a","t">>, <<"a","s","s","i","s","t","a","n","t">>,
               <<"b","o","t">> }

FaceNouns == { w_face, <<"r","e","c","o","g","n","i","z","e">>,
               <<"r","e","c","o","g","n","i","t","i","o","n">> }

HandNouns == { w_hand, <<"s","e","r","v","o">>, <<"o","b","j","e","c","t">>,
               <<"f","i","n","g","e","r">> }

ExitPhrases ==
  { Join(<<w_exit, w_controller>>), Join(<<w_shutdown, w_controller>>),
    Join(<<w_quit, w_controller>>), Join(<<w_stop, w_controller>>) }

\* Variant: a start verb wins over a stop verb.
ParseAction_start_wins(t) ==
  LET action1 == IF AnyIn(StopVerbs, t) THEN "stop" ELSE "none"
  IN  IF AnyIn(StartVerbs, t) THEN "start" ELSE action1

\* parse_start_stop_command: (action, target), "none" for Python's None.
ParseAction(t) ==
  LET action1 == IF AnyIn(StartVerbs, t) THEN "start" ELSE "none"
  IN  IF AnyIn(StopVerbs, t) THEN "stop" ELSE action1

\* Variant: the nouns are tried in the opposite order.
ParseTarget_hand_first(t) ==
  IF AnyIn(HandNouns, t) THEN "hand"
  ELSE IF AnyIn(FaceNouns, t) THEN "face"
  ELSE IF AnyIn(ChatNouns, t) THEN "chatbot"
  ELSE "none"

ParseTarget(t) ==
  IF AnyIn(ChatNouns, t) THEN "chatbot"
  ELSE IF AnyIn(FaceNouns, t) THEN "face"
  ELSE IF AnyIn(HandNouns, t) THEN "hand"
  ELSE "none"

\* Variant: no status override.
parse_without_status(text) ==
  IF text = <<>> THEN <<"none", "none">>
  ELSE LET t == Lower(text) IN <<ParseAction(t), ParseTarget(t)>>

\* Variant: a result with one part missing is returned as (none, none).
parse_all_or_nothing(text) ==
  IF text = <<>> THEN <<"none", "none">>
  ELSE LET t == Lower(text)
           action == ParseAction(t)
           target == ParseTarget(t)
       IN  IF Contains(t, w_status) THEN <<"status", "none">>
           ELSE IF action = "none" \/ target = "none" THEN <<"none", "none">>
           ELSE <<action, target>>

parse_start_stop_command(text) ==
  IF text = <<>> THEN <<"none", "none">>
  ELSE LET t == Lower(text)
           action == ParseAction(t)
           target == ParseTarget(t)
       IN  IF Contains(t, w_status) THEN <<"status", "none">>
           ELSE <<action, target>>

\* --------------------------------------------------------------- registry
\* MODULE_NAMES: the keys that have a script.
MODULE_NAMES == {"face", "hand", "object", "servo"}

\* key.lower() on the keys the callers pass.
KeyLower(k) == IF k = "FACE" THEN "face" ELSE k

\* Python's None where a process handle is expected; handles are 1..Len(procs).
NoProc == 0

\* dict operations on running_procs, a sequence of [k, h] in insertion order.
DictHas(d, k) == \E i \in 1..Len(d) : d[i].k = k

DictGet(d, k) ==
  IF DictHas(d, k) THEN (CHOOSE e \in {d[i] : i \in 1..Len(d)} : e.k = k).h
  ELSE NoProc

DictSet(d, k, h) ==
  IF DictHas(d, k)
  THEN [i \in 1..Len(d) |-> IF d[i].k = k THEN [k |-> k, h |-> h] ELSE d[i]]
  ELSE Append(d, [k |-> k, h |-> h])

DictPop(d, k) == SelectSeq(d, LAMBDA e : e.k # k)

DictKeys(d) == [i \in 1..Len(d) |-> d[i].k]

DictKeySet(d) == {d[i].k : i \in 1..Len(d)}

\* proc.poll() is None
Alive(ps, h) == h # NoProc /\ ps[h].st = "alive"

\* Outcomes of the environment for one start call.
SpawnOutcomes == {"ok", "missing", "oserror"}

\* Variant: no liveness probe before spawning.
start_without_probe(d, ps, key, env) ==
  LET key_lower == KeyLower(key)
      same(r) == [reg |-> d, procs |-> ps, ret |-> r]
  IN  IF key_lower \notin MODULE_NAMES \/ env # "ok" THEN same(NoProc)
      ELSE LET p == Len(ps) + 1 IN
           [ reg   |-> DictSet(d, key_lower, p),
             procs |-> Append(ps, [key |-> key_lower, st |-> "alive",
                                   term |-> FALSE, kill |-> FALSE]),
             ret   |-> p ]

\* Variant: the key is registered before Popen is tried.
start_registers_first(d, ps, key, env) ==
  LET key_lower == KeyLower(key)
      proc == DictGet(d, key_lower)
      same(r) == [reg |-> d, procs |-> ps, ret |-> r]
  IN  IF key_lower \notin MODULE_NAMES THEN same(NoProc)
      ELSE IF env = "missing" THEN same(NoProc)
      ELSE IF Alive(ps, proc) THEN same(proc)
      ELSE IF env = "oserror"
        THEN [reg |-> DictSet(d, key_lower, NoProc), procs |-> ps,
              ret |-> NoProc]
      ELSE LET p == Len(ps) + 1 IN
           [ reg   |-> DictSet(d, key_lower, p),
             procs |-> Append(ps, [key |-> key_lower, st |-> "alive",
                                   term |-> FALSE, kill |-> FALSE]),
             ret   |-> p ]

\* start_subprocess_module(key) in registry d and process table ps, the
\* environment answering env: the registry, the table and the return value.
start_subprocess_module(d, ps, key, env) ==
  LET key_lower == KeyLower(key)
      proc == DictGet(d, key_lower)
      same(r) == [reg |-> d, procs |-> ps, ret |-> r]
  IN  IF key_lower \notin MODULE_NAMES THEN same(NoProc)
      ELSE IF env = "missing" THEN same(NoProc)
      ELSE IF Alive(ps, proc) THEN same(proc)
      ELSE IF env = "oserror" THEN same(NoProc)
      ELSE LET p == Len(ps) + 1 IN
           [ reg   |-> DictSet(d, key_lower, p),
             procs |-> Append(ps, [key |-> key_lower, st |-> "alive",
                                   term |-> FALSE, kill |-> FALSE]),
             ret   |-> p ]

\* Outcomes of the environment for one stop call on a live process.
StopOutcomes == {"exits", "timeout", "term_raises", "kill_raises"}

\* Variant: a live process is killed at once, without terminate and wait.
stop_kill_at_once(d, ps, key, env) ==
  LET key_lower == KeyLower(key)
      proc == DictGet(d, key_lower)
  IN  IF proc = NoProc THEN [reg |-> d, procs |-> ps, ret |-> FALSE]
      ELSE IF ~Alive(ps, proc)
        THEN [reg |-> DictPop(d, key_lower), procs |-> ps, ret |-> TRUE]
      ELSE [ reg   |-> DictPop(d, key_lower),
             procs |-> [ps EXCEPT ![proc].st = "exited", ![proc].kill = TRUE],
             ret   |-> TRUE ]

\* stop_subprocess_module(key): the registry, the table and the return value.
stop_subprocess_module(d, ps, key, env) ==
  LET key_lower == KeyLower(key)
      proc == DictGet(d, key_lower)
  IN  IF proc = NoProc THEN [reg |-> d, procs |-> ps, ret |-> FALSE]
      ELSE IF ~Alive(ps, proc)
        THEN [reg |-> DictPop(d, key_lower), procs |-> ps, ret |-> TRUE]
      ELSE IF env = "term_raises"
        THEN [reg |-> d, procs |-> ps, ret |-> FALSE]
      ELSE IF env = "exits"
        THEN [ reg   |-> DictPop(d, key_lower),
               procs |-> [ps EXCEPT ![proc].st = "exited", ![proc].term = TRUE],
               ret   |-> TRUE ]
      ELSE IF env = "kill_raises"
        THEN [ reg   |-> d,
               procs |-> [ps EXCEPT ![proc].term = TRUE],
               ret   |-> FALSE ]
      ELSE [ reg   |-> DictPop(d, key_lower),
             procs |-> [ps EXCEPT ![proc].st = "exited", ![proc].term = TRUE,
                                  ![proc].kill = TRUE],
             ret   |-> TRUE ]

\* Variant: a registered handle counts as running, without the poll.
StatusOf_registered(d, ps, k) == IF DictHas(d, k) THEN "running" ELSE "stopped"

\* The status probe of the status command, for one key.
StatusOf(d, ps, k) == IF Alive(ps, DictGet(d, k)) THEN "running" ELSE "stopped"

\* Variant: the sweep stops after the first key.
StopAll_first_only(d, ps, envf) ==
  IF d = <<>> THEN [reg |-> d, procs |-> ps, applied |-> <<>>]
  ELSE LET k == d[1].k
           r == stop_subprocess_module(d, ps, k, envf[k])
       IN  [reg |-> r.reg, procs |-> r.procs, applied |-> <<k>>]

\* finally: for k in list(running_procs.keys()): stop_subprocess_module(k),
\* over the key list ks with the environment's answer envf[k] for each key.
\* `applied` collects the keys stop was called with.
RECURSIVE StopAllFrom(_, _, _, _, _)
StopAllFrom(d, ps, ks, envf, applied) ==
  IF ks = <<>> THEN [reg |-> d, procs |-> ps, applied |-> applied]
  ELSE LET r == stop_subprocess_module(d, ps, Head(ks), envf[Head(ks)])
       IN  StopAllFrom(r.reg, r.procs, Tail(ks), envf, Append(applied, Head(ks)))

StopAll(d, ps, envf) == StopAllFrom(d, ps, DictKeys(d), envf, <<>>)

\* ------------------------------------------------------------------ state
VARIABLES
  running_procs,  \* the registry: sequence of [k, h], insertion order
  procs,          \* every process spawned so far: [key, st, term, kill]
  last,           \* the call the latest step made (registry, listen): the key,
                  \* the environment's answer, the result
  botLoaded,      \* dynamicbot was imported (dynamicbot is not None)
  pc,             \* where main_voice_controller is
  cmd,            \* the captured utterance until it is classified, else empty
  action,         \* parse_start_stop_command's action while it is dispatched
  target,         \* parse_start_stop_command's target while it is dispatched
  waitingOn,      \* the handle proc.wait() blocks on
  said,           \* what the latest step spoke (safe_speak, or listen's own
                  \* notice): <<msg, target>>
  summary,        \* the status summary the latest step spoke: <<key, state>>
  event,          \* the kind of the latest step
  exitCause,      \* why the loop ended
  shutdownLog,    \* farewell / loop exit / stop-all sweep, in order
  sweepKeys,      \* keys tracked when the sweep began
  stopApplied,    \* keys the sweep called stop with
  wake            \* listen_for_wakeword_fallback: attempts, budget, the
                  \* text heard last, the value returned

vars == <<running_procs, procs, last, botLoaded, pc, cmd, action, target,
          waitingOn, said, summary, event, exitCause, shutdownLog, sweepKeys,
          stopApplied, wake>>

\* The loop's own variables and the shutdown's.
loopVars == <<pc, cmd, action, target, waitingOn>>
shutdownVars == <<exitCause, shutdownLog, sweepKeys, stopApplied>>

NoCall == [op |-> "none", key |-> "", env |-> "", proc |-> NoProc,
           ok |-> FALSE, status |-> ""]

\* max_attempts = None: no budget.
NoLimit == -1

\* listen_for_wakeword_fallback not running.
NoWake == [attempts |-> 0, max_attempts |-> NoLimit, heard |-> <<>>,
           ret |-> "none"]

Say(msg) == <<msg, "">>
SayT(msg, t) == <<msg, t>>

\* What a step reports: its kind, its registry call, what it spoke.
Report(e, call, spoken, parts) ==
  /\ event' = e
  /\ last' = call
  /\ said' = spoken
  /\ summary' = parts

Init ==
  /\ running_procs = <<>>
  /\ procs = <<>>
  /\ last = NoCall
  /\ botLoaded \in BOOLEAN
  /\ pc = "startup"
  /\ cmd = <<>>
  /\ action = "none"
  /\ target = "none"
  /\ waitingOn = NoProc
  /\ said = <<>>
  /\ summary = {}
  /\ event = "init"
  /\ exitCause = "none"
  /\ shutdownLog = <<>>
  /\ sweepKeys = <<>>
  /\ stopApplied = <<>>
  /\ wake = NoWake

\* A child process exits on its own.
ChildExit ==
  /\ \E p \in 1..Len(procs) :
       /\ procs[p].st = "alive"
       /\ procs' = [procs EXCEPT ![p].st = "exited"]
  /\ Report("child_exit", NoCall, <<>>, {})
  /\ UNCHANGED <<running_procs, botLoaded, wake, loopVars, shutdownVars>>

\* ------------------------------------------- the registry called directly
\* Keys a caller may pass.
CallKeys == {"face", "hand", "chatbot", "FACE"}

RStart ==
  /\ \E k \in CallKeys, env \in SpawnOutcomes :
       LET r == start_subprocess_module(running_procs, procs, k, env) IN
       /\ Len(r.procs) <= MaxSpawns
       /\ running_procs' = r.reg
       /\ procs' = r.procs
       /\ Report("call", [NoCall EXCEPT !.op = "start", !.key = k,
                                        !.env = env, !.proc = r.ret],
                 <<>>, {})
  /\ UNCHANGED <<botLoaded, wake, loopVars, shutdownVars>>

RStop ==
  /\ \E k \in CallKeys, env \in StopOutcomes :
       LET r == stop_subprocess_module(running_procs, procs, k, env) IN
       /\ running_procs' = r.reg
       /\ procs' = r.procs
       /\ Report("call", [NoCall EXCEPT !.op = "stop", !.key = k,
                                        !.env = env, !.ok = r.ret],
                 <<>>, {})
  /\ UNCHANGED <<botLoaded, wake, loopVars, shutdownVars>>

RStatus ==
  /\ \E k \in MODULE_NAMES :
       Report("call", [NoCall EXCEPT !.op = "status", !.key = k,
                         !.status = StatusOf(running_procs, procs, k)],
              <<>>, {})
  /\ UNCHANGED <<running_procs, procs, botLoaded, wake, loopVars, shutdownVars>>

RStopAll ==
  /\ \E envf \in [DictKeySet(running_procs) -> StopOutcomes] :
       LET r == StopAll(running_procs, procs, envf) IN
       /\ running_procs' = r.reg
       /\ procs' = r.procs
  /\ Report("call", [NoCall EXCEPT !.op = "stopAll"], <<>>, {})
  /\ UNCHANGED <<botLoaded, wake, loopVars, shutdownVars>>

NextRegistry == RStart \/ RStop \/ RStatus \/ RStopAll \/ ChildExit

SpecRegistry == Init /\ [][NextRegistry]_vars

\* ------------------------------------------------- main_voice_controller
\* Words the captured utterances are made of; w_empty gives leading,
\* trailing and doubled spaces.
CmdWords == { w_Start, w_stop, w_status, w_face, w_hand, w_chatbot,
              w_controller, w_empty }

RECURSIVE WordSeqs(_)
WordSeqs(n) ==
  IF n = 0 THEN {<<>>}
  ELSE LET shorter == WordSeqs(n - 1) IN
       shorter \cup {Append(ws, w) : ws \in {x \in shorter : Len(x) = n - 1},
                                     w \in CmdWords}

\* What dynamicbot.listen may return as a command.
Utterances == {Join(ws) : ws \in WordSeqs(MaxCmdWords)}

\* cmd.lower().strip() of every utterance.
Commands == {Strip(Lower(u)) : u \in Utterances}

IsExitPhrase(c) == AnyIn(ExitPhrases, c)

\* States of the loop in which the chat engine runs.
ChatPcs == {"chat_greeting", "chat_loop"}

\* dynamicbot is None: the controller reports it and returns before the loop.
StartupMissing ==
  /\ pc = "startup" /\ ~botLoaded
  /\ pc' = "done"
  /\ exitCause' = "no_dynamicbot"
  /\ Report("startup", NoCall, <<Say("dynamicbot_missing")>>, {})
  /\ UNCHANGED <<running_procs, procs, botLoaded, wake, cmd, action, target,
                 waitingOn, shutdownLog, sweepKeys, stopApplied>>

StartupReady ==
  /\ pc = "startup" /\ botLoaded
  /\ pc' = "idle"
  /\ Report("startup", NoCall, <<Say("ready")>>, {})
  /\ UNCHANGED <<running_procs, procs, botLoaded, wake, cmd, action, target,
                 waitingOn, shutdownVars>>

\* controller_listen_for_single_command: the wake gate answers True and the
\* acknowledgement is spoken.
WakeOk ==
  /\ pc = "idle"
  /\ pc' = "awaiting"
  /\ Report("wake", NoCall, <<Say("yes")>>, {})
  /\ UNCHANGED <<running_procs, procs, botLoaded, wake, cmd, action, target,
                 waitingOn, shutdownVars>>

\* The wake gate answers False or raises: cmd is None, the loop continues.
WakeFail ==
  /\ pc = "idle"
  /\ pc' = "idle"
  /\ Report("wake_fail", NoCall, <<>>, {})
  /\ UNCHANGED <<running_procs, procs, botLoaded, wake, cmd, action, target,
                 waitingOn, shutdownVars>>

\* The ways dynamicbot.listen gives no text: no speech before the timeout,
\* audio that is not understood, a failed request to the recognition service
\* (listen speaks a notice itself, then returns None), an exception.
ListenNoneOutcomes == {"timeout", "unknown_value", "request_error", "raises"}

\* What dynamicbot.listen speaks by itself for an outcome.
ListenNotice(env) ==
  IF env = "request_error" THEN <<Say("service_unavailable")>> ELSE <<>>

\* Variant: no text is handled as an empty utterance.
CaptureNone_as_empty ==
  /\ pc = "awaiting"
  /\ \E env \in ListenNoneOutcomes :
       Report("capture_none", [NoCall EXCEPT !.op = "listen", !.env = env],
              ListenNotice(env), {})
  /\ pc' = "captured"
  /\ UNCHANGED <<running_procs, procs, botLoaded, wake, cmd, action, target,
                 waitingOn, shutdownVars>>

\* Nothing captured after the acknowledgement: cmd is None, `continue`.
CaptureNone ==
  /\ pc = "awaiting"
  /\ \E env \in ListenNoneOutcomes :
       Report("capture_none", [NoCall EXCEPT !.op = "listen", !.env = env],
              ListenNotice(env), {})
  /\ pc' = "idle"
  /\ UNCHANGED <<running_procs, procs, botLoaded, wake, cmd, action, target,
                 waitingOn, shutdownVars>>

\* An utterance is captured; cmd = cmd.lower().strip().
Capture ==
  /\ pc = "awaiting"
  /\ cmd' \in Commands
  /\ pc' = "captured"
  /\ Report("capture", NoCall, <<>>, {})
  /\ UNCHANGED <<running_procs, procs, botLoaded, wake, action, target, waitingOn,
                 shutdownVars>>

\* Variant: break without the farewell.
DispatchExit_silent ==
  /\ pc = "captured"
  /\ IsExitPhrase(cmd)
  /\ shutdownLog' = <<"loop_exit">>
  /\ exitCause' = "phrase"
  /\ pc' = "finally"
  /\ Report("exit_phrase", NoCall, <<>>, {})
  /\ UNCHANGED <<running_procs, procs, botLoaded, wake, cmd, action, target,
                 waitingOn, sweepKeys, stopApplied>>

\* An exit phrase: the farewell, then break; cmd keeps the utterance.
DispatchExit ==
  /\ pc = "captured"
  /\ IsExitPhrase(cmd)
  /\ shutdownLog' = <<"farewell", "loop_exit">>
  /\ exitCause' = "phrase"
  /\ pc' = "finally"
  /\ Report("exit_phrase", NoCall, <<Say("farewell")>>, {})
  /\ UNCHANGED <<running_procs, procs, botLoaded, wake, cmd, action, target,
                 waitingOn, sweepKeys, stopApplied>>

\* Variant: the utterance is classified without the exit-phrase test.
Classify_unguarded ==
  /\ pc = "captured"
  /\ LET parsed == parse_start_stop_command(cmd) IN
       /\ action' = parsed[1]
       /\ target' = parsed[2]
  /\ cmd' = <<>>
  /\ pc' = "dispatching"
  /\ Report("classify", NoCall, <<>>, {})
  /\ UNCHANGED <<running_procs, procs, botLoaded, wake, waitingOn,
                 shutdownVars>>

\* No exit phrase: action, target = parse_start_stop_command(cmd).
Classify ==
  /\ pc = "captured"
  /\ ~IsExitPhrase(cmd)
  /\ LET parsed == parse_start_stop_command(cmd) IN
       /\ action' = parsed[1]
       /\ target' = parsed[2]
  /\ cmd' = <<>>
  /\ pc' = "dispatching"
  /\ Report("classify", NoCall, <<>>, {})
  /\ UNCHANGED <<running_procs, procs, botLoaded, wake, waitingOn, shutdownVars>>

\* The loop is left by an exception: on to the finally block.
LeaveLoop(cause) ==
  /\ shutdownLog' = <<"loop_exit">>
  /\ exitCause' = cause
  /\ pc' = "finally"
  /\ cmd' = <<>>
  /\ UNCHANGED <<running_procs, procs, botLoaded, wake, action, target, waitingOn,
                 sweepKeys, stopApplied>>

\* The end of one dispatch: `continue`, back to the wake gate.
Continue ==
  /\ pc' = "idle"
  /\ action' = "none"
  /\ target' = "none"
  /\ UNCHANGED <<botLoaded, wake, cmd, shutdownVars>>

\* Variant: the status report also drops the handles of exited processes.
DispatchStatus_pruning ==
  /\ pc = "dispatching"
  /\ action = "status"
  /\ Report("status", NoCall, <<Say("status")>>,
            {<<k, StatusOf(running_procs, procs, k)>> : k \in MODULE_NAMES})
  /\ Continue
  /\ running_procs' = SelectSeq(running_procs, LAMBDA e : Alive(procs, e.h))
  /\ UNCHANGED <<procs, waitingOn>>

DispatchStatus ==
  /\ pc = "dispatching"
  /\ action = "status"
  /\ Report("status", NoCall, <<Say("status")>>,
            {<<k, StatusOf(running_procs, procs, k)>> : k \in MODULE_NAMES})
  /\ Continue
  /\ UNCHANGED <<running_procs, procs, waitingOn>>

DispatchUnrecognized ==
  /\ pc = "dispatching"
  /\ action # "status"
  /\ (action = "none" \/ target = "none")
  /\ Report("unrecognized", NoCall, <<Say("only_start_stop")>>, {})
  /\ Continue
  /\ UNCHANGED <<running_procs, procs, waitingOn>>

\* start chatbot: dynamicbot.bot_main() is entered (dynamicbot.py defines it).
DispatchStartChat ==
  /\ pc = "dispatching"
  /\ action = "start" /\ target = "chatbot"
  /\ pc' = "chat_greeting"
  /\ Report("start_chat", NoCall, <<Say("starting_assistant")>>, {})
  /\ UNCHANGED <<running_procs, procs, botLoaded, wake, cmd, action, target,
                 waitingOn, shutdownVars>>

\* bot_main spoke its greeting (dynamicbot.py line 77) and entered its loop.
ChatGreeted ==
  /\ pc = "chat_greeting"
  /\ pc' = "chat_loop"
  /\ Report("chat_greeted", NoCall, <<>>, {})
  /\ UNCHANGED <<running_procs, procs, botLoaded, wake, cmd, action, target,
                 waitingOn, shutdownVars>>

\* The session ends: an exit word, or an error bot_main caught and reported.
ChatReturns ==
  /\ pc = "chat_loop"
  /\ Report("chat_returned", NoCall, <<Say("returned")>>, {})
  /\ Continue
  /\ UNCHANGED <<running_procs, procs, waitingOn>>

\* Variant: no try/except around the bot_main call.
ChatRaises_uncaught ==
  /\ pc \in ChatPcs
  /\ Report("chat_raised", NoCall, <<>>, {})
  /\ LeaveLoop("fault")

\* bot_main raises an Exception: from the greeting, which is outside its try,
\* or from the speak() in its own handler. The call site catches it.
ChatRaises ==
  /\ pc \in ChatPcs
  /\ Report("chat_raised", NoCall,
            <<Say("assistant_crashed"), Say("returned")>>, {})
  /\ Continue
  /\ UNCHANGED <<running_procs, procs, waitingOn>>

\* Variant: the loop does not wait for the process it started.
DispatchStartProc_no_wait ==
  /\ pc = "dispatching"
  /\ action = "start" /\ target \in {"face", "hand"}
  /\ \E env \in SpawnOutcomes :
       LET r == start_subprocess_module(running_procs, procs, target, env)
           call == [NoCall EXCEPT !.op = "start", !.key = target,
                                  !.env = env, !.proc = r.ret]
       IN  /\ Len(r.procs) <= MaxSpawns
           /\ running_procs' = r.reg
           /\ procs' = r.procs
           /\ Report("start_proc", call,
                     <<SayT(IF r.ret # NoProc THEN "starting"
                            ELSE "couldnt_start", target)>>, {})
           /\ waitingOn' = waitingOn
           /\ Continue

\* start face / start hand: a handle blocks the loop on proc.wait().
DispatchStartProc ==
  /\ pc = "dispatching"
  /\ action = "start" /\ target \in {"face", "hand"}
  /\ \E env \in SpawnOutcomes :
       LET r == start_subprocess_module(running_procs, procs, target, env)
           call == [NoCall EXCEPT !.op = "start", !.key = target,
                                  !.env = env, !.proc = r.ret]
       IN  /\ Len(r.procs) <= MaxSpawns
           /\ running_procs' = r.reg
           /\ procs' = r.procs
           /\ IF r.ret # NoProc
              THEN /\ Report("start_proc", call,
                             <<SayT("starting", target)>>, {})
                   /\ waitingOn' = r.ret
                   /\ pc' = "blocked"
                   /\ UNCHANGED <<botLoaded, wake, cmd, action, target, shutdownVars>>
              ELSE /\ Report("start_proc", call,
                             <<SayT("couldnt_start", target)>>, {})
                   /\ waitingOn' = waitingOn
                   /\ Continue

\* Variant: the wait gives up while the process still runs.
WaitReturns_early ==
  /\ pc = "blocked"
  /\ Report("wait_returned", NoCall, <<SayT("finished", target)>>, {})
  /\ waitingOn' = NoProc
  /\ Continue
  /\ UNCHANGED <<running_procs, procs>>

\* Variant: the loop stays blocked after the child's exit.
WaitReturns_stays ==
  /\ pc = "blocked"
  /\ procs[waitingOn].st = "exited"
  /\ Report("wait_returned", NoCall, <<>>, {})
  /\ UNCHANGED <<running_procs, procs, botLoaded, wake, loopVars,
                 shutdownVars>>

\* proc.wait() returns when the process has exited.
WaitReturns ==
  /\ pc = "blocked"
  /\ procs[waitingOn].st = "exited"
  /\ Report("wait_returned", NoCall, <<SayT("finished", target)>>, {})
  /\ waitingOn' = NoProc
  /\ Continue
  /\ UNCHANGED <<running_procs, procs>>

DispatchStopChat ==
  /\ pc = "dispatching"
  /\ action = "stop" /\ target = "chatbot"
  /\ Report("stop_chat", NoCall, <<Say("stop_chat_hint")>>, {})
  /\ Continue
  /\ UNCHANGED <<running_procs, procs, waitingOn>>

\* stop face / stop hand.
DispatchStopProc ==
  /\ pc = "dispatching"
  /\ action = "stop" /\ target \in {"face", "hand"}
  /\ \E env \in StopOutcomes :
       LET r == stop_subprocess_module(running_procs, procs, target, env) IN
       /\ running_procs' = r.reg
       /\ procs' = r.procs
       /\ Report("stop_proc",
                 [NoCall EXCEPT !.op = "stop", !.key = target,
                                !.env = env, !.ok = r.ret],
                 <<SayT(IF r.ret THEN "stopped" ELSE "not_running", target)>>,
                 {})
  /\ Continue
  /\ UNCHANGED waitingOn

\* Where KeyboardInterrupt reaches the controller's handler: everywhere in
\* the loop but inside bot_main's own try block.
InterruptPcs ==
  {"idle", "awaiting", "captured", "dispatching", "blocked", "chat_greeting"}

\* The operator's interrupt (KeyboardInterrupt) while the loop runs.
Interrupt ==
  /\ pc \in InterruptPcs
  /\ Report("interrupt", NoCall, <<>>, {})
  /\ LeaveLoop("interrupt")

\* The interrupt inside bot_main's try block: bot_main catches it
\* (dynamicbot.py line 113) and returns to the call site.
InterruptChat ==
  /\ pc = "chat_loop"
  /\ Report("interrupt", NoCall, <<Say("returned")>>, {})
  /\ Continue
  /\ UNCHANGED <<running_procs, procs, waitingOn>>

\* Any other exception the loop does not catch: it leaves through finally.
Fault ==
  /\ pc \in {"captured", "dispatching", "blocked"}
  /\ Report("fault", NoCall, <<>>, {})
  /\ LeaveLoop("fault")

\* finally: stop every tracked key; then main_voice_controller returns.
Sweep ==
  /\ pc = "finally"
  /\ \E envf \in [DictKeySet(running_procs) -> StopOutcomes] :
       LET r == StopAll(running_procs, procs, envf) IN
       /\ running_procs' = r.reg
       /\ procs' = r.procs
       /\ stopApplied' = r.applied
  /\ sweepKeys' = DictKeys(running_procs)
  /\ shutdownLog' = Append(shutdownLog, "stop_all")
  /\ pc' = "done"
  /\ Report("sweep", [NoCall EXCEPT !.op = "stopAll"], <<>>, {})
  /\ UNCHANGED <<botLoaded, wake, cmd, action, target, waitingOn, exitCause>>

\* The steps of the while loop and of the finally block.
NextLoop ==
  \/ WakeOk \/ WakeFail \/ CaptureNone \/ Capture
  \/ DispatchExit \/ Classify
  \/ DispatchStatus \/ DispatchUnrecognized
  \/ DispatchStartChat \/ ChatGreeted \/ ChatReturns \/ ChatRaises
  \/ DispatchStartProc \/ WaitReturns
  \/ DispatchStopChat \/ DispatchStopProc
  \/ Interrupt \/ InterruptChat \/ Fault \/ Sweep
  \/ ChildExit

Next == StartupMissing \/ StartupReady \/ NextLoop

Spec == Init /\ [][Next]_vars

\* The controller is one sequential program: a dispatch branch that can
\* run does run. A spawned child eventually exits and a chat session
\* eventually returns; the wake gate, the operator's interrupt and faults
\* are under no such obligation.
DispatchSteps ==
  \/ DispatchStatus \/ DispatchUnrecognized
  \/ DispatchStartChat \/ ChatGreeted
  \/ DispatchStartProc \/ WaitReturns
  \/ DispatchStopChat \/ DispatchStopProc

Fairness ==
  /\ WF_vars(DispatchSteps)
  /\ WF_vars(ChildExit)
  /\ WF_vars(ChatReturns \/ ChatRaises)

SpecLive == Init /\ [][Next]_vars /\ Fairness

\* The loop followed from its first captured utterance on, the first
\* utterance being up to MaxFirstWords words long.
FirstCommands == {Strip(Lower(Join(ws))) : ws \in WordSeqs(MaxFirstWords)}

InitCaptured ==
  /\ running_procs = <<>>
  /\ procs = <<>>
  /\ last = NoCall
  /\ botLoaded = TRUE
  /\ pc = "captured"
  /\ cmd \in FirstCommands
  /\ action = "none"
  /\ target = "none"
  /\ waitingOn = NoProc
  /\ said = <<>>
  /\ summary = {}
  /\ event = "capture"
  /\ exitCause = "none"
  /\ shutdownLog = <<>>
  /\ sweepKeys = <<>>
  /\ stopApplied = <<>>
  /\ wake = NoWake

SpecCaptured == InitCaptured /\ [][NextLoop]_vars

\* --------------------------------- parse_start_stop_command, called alone
\* Every keyword the parser looks for.
KeyWords ==
  StartVerbs \cup StopVerbs \cup ChatNouns \cup FaceNouns \cup HandNouns
    \cup {w_status}

\* A short vocabulary for longer texts: a word of each kind, upper-case
\* letters, a word that hides a stop verb ("friend" holds "end"), and the
\* empty word for extra spaces.
ParseWords == { w_Start, w_stop, w_status, w_Status, w_face, w_hand,
                w_chatbot, w_friend, w_empty }

RECURSIVE WordSeqsOver(_, _)
WordSeqsOver(W, n) ==
  IF n = 0 THEN {<<>>}
  ELSE LET shorter == WordSeqsOver(W, n - 1) IN
       shorter \cup {Append(ws, w) : ws \in {x \in shorter : Len(x) = n - 1},
                                     w \in W}

\* The argument texts; the empty text is one of them.
ParseTexts ==
  {Join(ws) : ws \in WordSeqsOver(ParseWords, MaxParseWords)}
    \cup {Join(ws) : ws \in WordSeqsOver(KeyWords, MaxKeyWords)}

InitParse ==
  /\ running_procs = <<>>
  /\ procs = <<>>
  /\ last = NoCall
  /\ botLoaded = TRUE
  /\ pc = "parse_call"
  /\ cmd \in ParseTexts
  /\ action = "none"
  /\ target = "none"
  /\ waitingOn = NoProc
  /\ said = <<>>
  /\ summary = {}
  /\ event = "init"
  /\ exitCause = "none"
  /\ shutdownLog = <<>>
  /\ sweepKeys = <<>>
  /\ stopApplied = <<>>
  /\ wake = NoWake

\* action, target = parse_start_stop_command(text)
ParseCall ==
  /\ pc = "parse_call"
  /\ LET parsed == parse_start_stop_command(cmd) IN
       /\ action' = parsed[1]
       /\ target' = parsed[2]
  /\ pc' = "parse_returned"
  /\ Report("parse", NoCall, <<>>, {})
  /\ UNCHANGED <<running_procs, procs, botLoaded, wake, cmd, waitingOn,
                 shutdownVars>>

NextParse == ParseCall

SpecParse == InitParse /\ [][NextParse]_vars

\* ------------------------------ listen_for_wakeword_fallback, called alone
\* WAKEWORD: the default of the environment variable, lowercased.
WAKEWORD == Lower(w_jarvis)

\* Words of the texts heard while waiting: the wake word alone, with an
\* upper-case letter, as the beginning of a longer word, and another word.
WakeWords == { w_jarvis, w_Jarvis, w_jarvisson, w_say, w_empty }

\* What dynamicbot.listen may return while waiting for the wake word.
WakeTexts == {Join(ws) : ws \in WordSeqsOver(WakeWords, MaxWakeWords)}

\* str.startswith
StartsWith(t, prefix) ==
  Len(t) >= Len(prefix) /\ SubSeq(t, 1, Len(prefix)) = prefix

\* Variant: the wake word anywhere in the text.
WakeMatches_anywhere(txt, wakeword) == Contains(txt, wakeword)

\* txt == wakeword or txt.startswith(wakeword + " ")
WakeMatches(txt, wakeword) ==
  txt = wakeword \/ StartsWith(txt, wakeword \o <<SP>>)

InitWake ==
  /\ running_procs = <<>>
  /\ procs = <<>>
  /\ last = NoCall
  /\ botLoaded \in BOOLEAN
  /\ pc = "wake_call"
  /\ cmd = <<>>
  /\ action = "none"
  /\ target = "none"
  /\ waitingOn = NoProc
  /\ said = <<>>
  /\ summary = {}
  /\ event = "init"
  /\ exitCause = "none"
  /\ shutdownLog = <<>>
  /\ sweepKeys = <<>>
  /\ stopApplied = <<>>
  /\ \E budget \in {NoLimit} \cup 0..MaxAttempts :
       wake = [NoWake EXCEPT !.max_attempts = budget]

WakeFrame ==
  UNCHANGED <<running_procs, procs, botLoaded, cmd, action, target, waitingOn,
              shutdownVars>>

\* No dynamicbot.listen: False at once.
WakeNoListen ==
  /\ pc = "wake_call" /\ ~botLoaded
  /\ wake' = [wake EXCEPT !.ret = "false"]
  /\ pc' = "wake_returned"
  /\ Report("wake_no_listen", NoCall, <<>>, {})
  /\ WakeFrame

WakeEnter ==
  /\ pc = "wake_call" /\ botLoaded
  /\ pc' = "wake_loop"
  /\ Report("wake_enter", NoCall, <<>>, {})
  /\ UNCHANGED wake
  /\ WakeFrame

\* The attempts budget is used up: False.
WakeBudgetSpent ==
  /\ pc = "wake_loop"
  /\ wake.max_attempts # NoLimit /\ wake.attempts >= wake.max_attempts
  /\ wake' = [wake EXCEPT !.ret = "false"]
  /\ pc' = "wake_returned"
  /\ Report("wake_budget", NoCall, <<>>, {})
  /\ WakeFrame

WakeMayListen ==
  /\ pc = "wake_loop"
  /\ ~(wake.max_attempts # NoLimit /\ wake.attempts >= wake.max_attempts)
  /\ wake.attempts < MaxAttempts

\* One attempt in which listen returns a text: True if it matches, else the
\* phrase is ignored and the loop goes on.
WakeHeard ==
  /\ WakeMayListen
  /\ \E text \in WakeTexts :
       LET txt == Strip(Lower(text))
           hit == text # <<>> /\ WakeMatches(txt, WAKEWORD)
       IN  /\ wake' = [wake EXCEPT !.attempts = @ + 1, !.heard = text,
                                   !.ret = IF hit THEN "true" ELSE "none"]
           /\ pc' = IF hit THEN "wake_returned" ELSE "wake_loop"
  /\ Report("wake_heard", NoCall, <<>>, {})
  /\ WakeFrame

\* One attempt in which listen returns None or raises.
WakeSilent ==
  /\ WakeMayListen
  /\ wake' = [wake EXCEPT !.attempts = @ + 1, !.heard = <<>>]
  /\ pc' = "wake_loop"
  /\ Report("wake_silent", NoCall, <<>>, {})
  /\ WakeFrame

NextWake ==
  WakeNoListen \/ WakeEnter \/ WakeBudgetSpent \/ WakeHeard \/ WakeSilent

SpecWake == InitWake /\ [][NextWake]_vars

\* ----------------------------------------------------------------- claims
AliveOf(k) == {p \in 1..Len(procs) : procs[p].key = k /\ procs[p].st = "alive"}
HandlesOf(k) == {i \in 1..Len(running_procs) : running_procs[i].k = k}
AliveProcs == {p \in 1..Len(procs) : procs[p].st = "alive"}

\* C1: whatever the order of start, stop, status and stop-all calls and of
\* child exits, the registry holds at most one handle per key and at most one
\* process spawned for a key is alive.
C1_OneHandleOneLiveProcess ==
  \A k \in MODULE_NAMES :
    /\ Cardinality(HandlesOf(k)) <= 1
    /\ Cardinality(AliveOf(k)) <= 1

\* C1's case: a key was spawned twice, the first process has exited, the
\* second is alive and registered.
C1_Witness ==
  \E p, q \in 1..Len(procs) :
    /\ p < q /\ procs[p].key = procs[q].key
    /\ procs[p].st = "exited" /\ procs[q].st = "alive"
    /\ DictGet(running_procs, procs[q].key) = q

\* C2: in the controller loop at most one child process is alive at any
\* time, and none while the chat session runs.
C2_OneWorkload ==
  /\ Cardinality(AliveProcs) <= 1
  /\ pc \in ChatPcs => AliveProcs = {}

\* C2's case: a face and a hand process have both been started, one of them
\* is running.
C2_Witness ==
  \E p, q \in 1..Len(procs) :
    /\ procs[p].key = "face" /\ procs[q].key = "hand"
    /\ AliveProcs # {}
    /\ pc = "blocked"

\* A start call on key k is the step being taken.
IsStartCall(k) == event' = "call" /\ last'.op = "start" /\ last'.key = k
IsStopCall(k) == event' = "call" /\ last'.op = "stop" /\ last'.key = k

\* C3 as claimed: start on a key whose handle is alive spawns nothing, leaves
\* the registry as it is and returns that handle.
C3_Original ==
  [][\A k \in CallKeys :
       (IsStartCall(k) /\ Alive(procs, DictGet(running_procs, KeyLower(k))))
       => /\ running_procs' = running_procs
          /\ procs' = procs
          /\ last'.proc = DictGet(running_procs, KeyLower(k))]_vars

\* C3 as amended: start on a key whose handle is alive spawns nothing and
\* leaves the registry as it is; it returns that handle when the script file
\* exists, and None when the script file is missing.
C3_StartIdempotent ==
  [][\A k \in CallKeys :
       (IsStartCall(k) /\ Alive(procs, DictGet(running_procs, KeyLower(k))))
       => /\ running_procs' = running_procs
          /\ procs' = procs
          /\ last'.proc = IF last'.env = "missing" THEN NoProc
                          ELSE DictGet(running_procs, KeyLower(k))]_vars

\* C3's case: a start call got the live handle back although Popen would
\* have failed, so nothing was spawned by it.
C3_Witness ==
  /\ last.op = "start" /\ last.env = "oserror"
  /\ Alive(procs, last.proc)
  /\ DictGet(running_procs, KeyLower(last.key)) = last.proc

\* C4: a stop call on a registered key leaves no handle for the key, and the
\* status probe then says stopped, whatever happened in the termination.
C4_StopAlwaysRemoves ==
  [][\A k \in CallKeys :
       (IsStopCall(k) /\ DictHas(running_procs, KeyLower(k)))
       => /\ ~DictHas(running_procs', KeyLower(k))
          /\ StatusOf(running_procs', procs', KeyLower(k)) = "stopped"]_vars

\* C5: a start whose spawn succeeded blocks the loop on that process, and
\* the loop goes from blocked back to listening only when it has exited.
C5_BlockedUntilExit ==
  [][/\ (event' = "start_proc" /\ last'.proc # NoProc)
          => (pc' = "blocked" /\ waitingOn' = last'.proc)
     /\ (pc = "blocked" /\ pc' \in {"idle", "awaiting", "captured"})
          => procs'[waitingOn].st = "exited"
     /\ (pc \in {"dispatching", "blocked"})
          => event' \notin {"wake", "wake_fail", "capture", "capture_none"}
    ]_vars

\* C5's case: the wait returned after the child exited.
C5_Witness ==
  /\ event = "wait_returned" /\ pc = "idle"
  /\ \E p \in 1..Len(procs) : procs[p].st = "exited"

C7_InterruptShutsDown == event = "interrupt" => pc = "finally"

\* C8 as claimed: on an exit phrase the sweep comes first, then the
\* farewell, then the end of the loop.
C8_Original ==
  (pc = "done" /\ exitCause = "phrase")
  => shutdownLog = <<"stop_all", "farewell", "loop_exit">>

\* C8 as amended: on an exit phrase the farewell is spoken first, then the
\* loop ends, and the stop-all sweep runs last.
C8_FarewellThenSweep ==
  (pc = "done" /\ exitCause = "phrase")
  => shutdownLog = <<"farewell", "loop_exit", "stop_all">>

\* C8's case: the controller returned after an exit phrase, with a key to
\* sweep.
C8_Witness == pc = "done" /\ exitCause = "phrase" /\ sweepKeys # <<>>

\* C9: a start whose spawn failed (script missing, or Popen raised) returns
\* None, changes neither the registry nor the processes, and the controller
\* says so and goes back to listening without blocking.
C9_SpawnFailure ==
  [][(event' = "start_proc" /\ last'.env \in {"missing", "oserror"})
     => /\ last'.proc = NoProc
        /\ running_procs' = running_procs
        /\ procs' = procs
        /\ said' = <<SayT("couldnt_start", target)>>
        /\ pc' = "idle"
        /\ exitCause' = "none"]_vars

\* C9's case: Popen raised for a key that is already registered.
C9_Witness ==
  /\ event = "start_proc" /\ last.env = "oserror" /\ last.proc = NoProc
  /\ DictHas(running_procs, last.key)
  /\ pc = "idle"

\* C10: an exception of the chat engine is caught at the call site: the
\* crash notice is spoken, the registry stays as it is and the loop listens
\* again.
C10_ChatFailureCaught ==
  [][event' = "chat_raised"
     => /\ \E i \in 1..Len(said') : said'[i] = Say("assistant_crashed")
        /\ running_procs' = running_procs
        /\ procs' = procs
        /\ pc' = "idle"
        /\ exitCause' = "none"]_vars

\* C10's case: the chat engine raised with a key registered.
C10_Witness ==
  /\ event = "chat_raised" /\ pc = "idle" /\ running_procs # <<>>

\* C11: a status query has no side effect: the step that dispatches a status
\* command (and a status call on the registry) leaves the registry map and
\* every child process as they were; nothing is spawned, terminated, killed
\* or removed.
C11_StatusNoSideEffect ==
  [][(event' = "status" \/ (event' = "call" /\ last'.op = "status"))
       => (running_procs' = running_procs /\ procs' = procs)]_vars

\* A status was reported while the registry still held a handle.
C11_Witness ==
  /\ event = "status"
  /\ running_procs # <<>>

\* C12: on a status command the controller speaks exactly one summary; the
\* summary names every key of MODULE_NAMES once, as "running" exactly when
\* the registry holds a handle for the key whose process has not exited and
\* as "stopped" otherwise; the loop is then back at the wake gate.
C12_StatusSummary ==
  [][event' = "status" =>
       /\ said' = <<Say("status")>>
       /\ {s[1] : s \in summary'} = MODULE_NAMES
       /\ Cardinality(summary') = Cardinality(MODULE_NAMES)
       /\ \A s \in summary' :
            /\ s[2] \in {"running", "stopped"}
            /\ s[2] = "running" <=>
                 \E i \in 1..Len(running_procs) :
                   /\ running_procs[i].k = s[1]
                   /\ procs[running_procs[i].h].st = "alive"
       /\ pc' = "idle"]_vars

\* A summary was spoken that reports a key as stopped although the registry
\* still holds its handle.
C12_Witness ==
  /\ event = "status"
  /\ \E s \in summary : s[2] = "stopped" /\ DictHas(running_procs, s[1])

\* C13: for every non-empty text that contains "status" (in any letter
\* case), parse_start_stop_command returns (status, none), whatever start
\* verbs, stop verbs and target nouns the text also contains.
C13_StatusOverrides ==
  (pc = "parse_returned" /\ cmd # <<>> /\ Contains(Lower(cmd), w_status))
    => (action = "status" /\ target = "none")

\* A text with "status", a verb and a target noun was parsed.
C13_Witness ==
  /\ pc = "parse_returned"
  /\ Contains(cmd, w_status)
  /\ AnyIn(StartVerbs \cup StopVerbs, Lower(cmd))
  /\ AnyIn(ChatNouns \cup FaceNouns \cup HandNouns, cmd)
  /\ action = "status"

\* C14: for every text without "status" that contains at least one start
\* verb and at least one stop verb, parse_start_stop_command returns
\* action = stop.
C14_StopWins ==
  (/\ pc = "parse_returned"
   /\ ~Contains(Lower(cmd), w_status)
   /\ \E v \in StartVerbs : Contains(Lower(cmd), v)
   /\ \E v \in StopVerbs : Contains(Lower(cmd), v))
    => action = "stop"

\* A text with a start verb before a stop verb was parsed to stop.
C14_Witness ==
  /\ pc = "parse_returned"
  /\ cmd = Join(<<w_Start, w_stop, w_face>>)
  /\ action = "stop"
  /\ target = "face"

\* The text holds an action verb / a target noun, as substrings of its
\* lowercased form.
VerbFound(text) == \E v \in StartVerbs \cup StopVerbs : Contains(Lower(text), v)
NounFound(text) ==
  \E n \in ChatNouns \cup FaceNouns \cup HandNouns : Contains(Lower(text), n)

\* C15 as stated: for every text without "status" in which no action verb
\* was found or no target noun was found, parse_start_stop_command returns
\* exactly (none, none).
C15_Original ==
  (/\ pc = "parse_returned"
   /\ ~Contains(Lower(cmd), w_status)
   /\ (~VerbFound(cmd) \/ ~NounFound(cmd)))
    => (action = "none" /\ target = "none")

\* C15, amended: for every text without "status" each part of the result is
\* none exactly when that part was not found: the action is none iff the
\* text holds no action verb, the target is none iff it holds no target
\* noun, so (none, none) is returned only when neither was found.
C15_PartialResult ==
  (pc = "parse_returned" /\ ~Contains(Lower(cmd), w_status))
    => /\ action = "none" <=> ~VerbFound(cmd)
       /\ target = "none" <=> ~NounFound(cmd)

\* A verb without a noun was parsed: the action came back with no target.
C15_Witness ==
  /\ pc = "parse_returned"
  /\ VerbFound(cmd) /\ ~NounFound(cmd)
  /\ action # "none"
  /\ target = "none"

\* The text holds a noun of the given group.
HasNoun(group) == \E n \in group : Contains(Lower(cmd), n)

\* C16: the target is the first match in a fixed order. For a text without
\* "status": a chat noun gives chatbot even when face or hand nouns are
\* present; without a chat noun a face noun gives face even when hand nouns
\* are present; without chat and face nouns a hand noun gives hand; with no
\* noun the target is none.
C16_TargetPriority ==
  (pc = "parse_returned" /\ ~Contains(Lower(cmd), w_status)) =>
    /\ HasNoun(ChatNouns) => target = "chatbot"
    /\ (~HasNoun(ChatNouns) /\ HasNoun(FaceNouns)) => target = "face"
    /\ (~HasNoun(ChatNouns) /\ ~HasNoun(FaceNouns) /\ HasNoun(HandNouns))
         => target = "hand"
    /\ (~HasNoun(ChatNouns) /\ ~HasNoun(FaceNouns) /\ ~HasNoun(HandNouns))
         => target = "none"

\* A text with a hand noun, then a face noun, then a chat noun was parsed
\* to chatbot.
C16_Witness ==
  /\ pc = "parse_returned"
  /\ cmd = Join(<<w_hand, w_face, w_chatbot>>)
  /\ target = "chatbot"

\* The lowercased, trimmed form of the text heard last.
HeardNorm == Strip(Lower(wake'.heard))

\* C17: in the polling wake gate a heard utterance triggers the wake exactly
\* when its lowercased, trimmed form equals the wake phrase or begins with
\* the wake phrase followed by a space; an utterance that holds the phrase
\* only later in the text, or as the beginning of a longer word, never
\* triggers it.
C17_WakeMatch ==
  [][event' = "wake_heard" =>
       LET n == Len(WAKEWORD)
           atStart == Len(HeardNorm) >= n /\ SubSeq(HeardNorm, 1, n) = WAKEWORD
           thenSpace == Len(HeardNorm) > n /\ HeardNorm[n + 1] = SP
       IN  /\ wake'.ret = "true" <=>
                (atStart /\ (Len(HeardNorm) = n \/ thenSpace))
           /\ (Contains(HeardNorm, WAKEWORD) /\ ~atStart) => wake'.ret # "true"
           /\ (atStart /\ Len(HeardNorm) > n /\ ~thenSpace)
                => wake'.ret # "true"
           /\ wake'.ret # "true" => pc' = "wake_loop"]_vars

\* The wake was triggered by a text with an upper-case letter and a word
\* after the phrase.
C17_Witness ==
  /\ event = "wake_heard"
  /\ wake.ret = "true"
  /\ wake.heard = Join(<<w_Jarvis, w_say>>)

\* C18: when the controller leaves blocked-on-child because the child
\* exited, the registry no longer holds a handle for that feature key.
C18_RemovedWhenDead ==
  [][(pc = "blocked" /\ event' = "wait_returned")
       => ~DictHas(running_procs', target)]_vars

\* C19: termination in stop is two-phase and ordered. A process is killed
\* only in a step in which it was alive, terminate was requested of it and
\* the grace-period wait timed out; when it exits within the grace period it
\* is not killed; a process that had already exited gets neither a terminate
\* nor a kill.
C19_TwoPhaseStop ==
  [][/\ \A p \in 1..Len(procs) :
          /\ (procs'[p].kill /\ ~procs[p].kill)
               => (procs[p].st = "alive" /\ procs'[p].term)
          /\ procs[p].st = "exited"
               => (procs'[p].term = procs[p].term
                   /\ procs'[p].kill = procs[p].kill)
     /\ (event' = "call" /\ last'.op = "stop") =>
          LET h == DictGet(running_procs, KeyLower(last'.key)) IN
          /\ (h # NoProc /\ procs[h].st = "alive" /\ last'.env = "exits")
               => (procs'[h].term /\ ~procs'[h].kill)
          /\ (\E p \in 1..Len(procs) : procs'[p].kill /\ ~procs[p].kill)
               => (last'.env = "timeout" /\ h # NoProc /\ procs'[h].kill)
          /\ (h = NoProc \/ ~Alive(procs, h)) => procs' = procs]_vars

\* A stop call whose grace-period wait timed out killed the process it had
\* asked to terminate.
C19_Witness ==
  /\ event = "call" /\ last.op = "stop" /\ last.env = "timeout"
  /\ \E p \in 1..Len(procs) : procs[p].term /\ procs[p].kill

\* C20: the exit check comes before classification. A captured utterance
\* that holds an exit phrase, whatever else it holds, is never classified or
\* dispatched: the step that handles it leaves the loop for the finally
\* block with no action and no target, and, unless that step is an
\* interrupt or a fault, it is the exit-phrase step that speaks the
\* farewell.
C20_ExitBeforeClassify ==
  [][(pc = "captured" /\ \E ph \in ExitPhrases : Contains(cmd, ph)) =>
       /\ pc' = "finally"
       /\ action' = "none" /\ target' = "none"
       /\ running_procs' = running_procs /\ procs' = procs
       /\ event' \in {"exit_phrase", "interrupt", "fault"}
       /\ event' = "exit_phrase"
            => (exitCause' = "phrase" /\ said' = <<Say("farewell")>>)]_vars

\* The loop was left on an utterance that holds an exit phrase and also
\* "status".
C20_Witness ==
  /\ event = "exit_phrase"
  /\ pc = "finally"
  /\ Contains(cmd, w_status)

\* C21 as stated: when no utterance is captured after the acknowledgement
\* the loop is back at the wake gate with nothing further spoken, nothing
\* classified or dispatched and the registry unchanged.
C21_Original ==
  [][event' = "capture_none" =>
       /\ pc' = "idle"
       /\ said' = <<>>
       /\ action' = "none" /\ target' = "none"
       /\ running_procs' = running_procs /\ procs' = procs]_vars

\* C21, amended: when no utterance is captured after the acknowledgement
\* the loop is back at the wake gate with nothing classified or dispatched
\* and the registry unchanged; nothing further is spoken, except that on a
\* failed request to the recognition service listen itself speaks its
\* service-unavailable notice.
C21_SilentReturn ==
  [][event' = "capture_none" =>
       /\ pc = "awaiting" /\ pc' = "idle"
       /\ said' = IF last'.env = "request_error"
                   THEN <<Say("service_unavailable")>> ELSE <<>>
       /\ action' = "none" /\ target' = "none" /\ cmd' = <<>>
       /\ running_procs' = running_procs /\ procs' = procs]_vars

\* Nothing was captured, silently, while the registry held a handle.
C21_Witness ==
  /\ event = "capture_none"
  /\ last.env = "timeout"
  /\ said = <<>>
  /\ pc = "idle"
  /\ running_procs # <<>>

\* The loop is inside a dispatch: classified, in the chat engine, or blocked
\* on a child.
InDispatch == pc \in {"dispatching", "blocked"} \cup ChatPcs

\* C22: every dispatch returns control to wake listening. From dispatching
\* or blocked-on-child (or inside the chat session), given that the spawned
\* child eventually exits and the chat session eventually returns, the loop
\* is eventually at the wake gate again, unless an interrupt or a fault has
\* ended the loop.
C22_DispatchReturns ==
  InDispatch ~> (pc = "idle" \/ exitCause \in {"interrupt", "fault"})

\* A second dispatch that blocked on a child has returned to the wake gate.
C22_Witness ==
  /\ pc = "idle"
  /\ event = "wait_returned"
  /\ exitCause = "none"
  /\ Len(procs) > 1

\* Some handle of the registry d refers to a live process of the table ps.
LiveHandleIn(d, ps) == \E i \in 1..Len(d) : ps[d[i].h].st = "alive"

\* C23: whenever the loop is at the wake gate or awaiting the command, no
\* handle of the registry refers to a live process; so a voice stop of face
\* or hand never requests a terminate or a kill (it finds no handle, or
\* removes the handle of a process that had exited), and a process is
\* terminated or killed only by the shutdown sweep.
C23_NoLiveHandleWhenListening ==
  [][/\ pc' \in {"idle", "awaiting"} => ~LiveHandleIn(running_procs', procs')
     /\ event' = "stop_proc" =>
          /\ procs' = procs
          /\ ~LiveHandleIn(running_procs, procs)
          /\ IF DictHas(running_procs, target)
               THEN /\ running_procs' = DictPop(running_procs, target)
                    /\ said' = <<SayT("stopped", target)>>
               ELSE /\ running_procs' = running_procs
                    /\ said' = <<SayT("not_running", target)>>
     /\ (\E p \in 1..Len(procs) :
            \/ procs'[p].term # procs[p].term
            \/ procs'[p].kill # procs[p].kill)
          => event' = "sweep"]_vars

\* A voice stop removed the handle of a process that had already exited.
C23_Witness ==
  /\ event = "stop_proc"
  /\ last.ok
  /\ pc = "idle"
  /\ \E p \in 1..Len(procs) :
       procs[p].key = last.key /\ ~procs[p].term /\ ~procs[p].kill

====
